---------------------------- MODULE Spec2Model ----------------------------
(***************************************************************************)
(* A model of the webhook and collection operations of the Helius client   *)
(* (src/src/Helius.ts): editWebhook, appendAddressesToWebhook,             *)
(* removeAddressesFromWebhook, createWebhook, createCollectionWebhook and  *)
(* getMintlist, each split at its awaits, against a remote service that    *)
(* answers or fails every request.                                         *)
(*                                                                         *)
(* JavaScript values are records [t, s, a]: t is the type tag, s the       *)
(* string of a string value, a the elements of an array value.  An array   *)
(* is kept run-length encoded, a sequence of runs [v, n] (n copies of v in *)
(* a row) with no empty run and no two neighbouring runs of the same v, so *)
(* that arrays of 100,000 entries are values the model can hold and two    *)
(* arrays are equal exactly when their encodings are.                      *)
(***************************************************************************)
EXTENDS Integers, Sequences, FiniteSets, TLC

(***************************************************************************)
(* Values                                                                  *)
(***************************************************************************)
Undefined == [t |-> "undefined", s |-> "", a |-> <<>>]

Null == [t |-> "null", s |-> "", a |-> <<>>]

Str(s) == [t |-> "string", s |-> s, a |-> <<>>]

Arr(a) == [t |-> "array", s |-> "", a |-> a]

Num(n) == [t |-> "number", s |-> "", a |-> <<>>, n |-> n]

\* an object: o is the record of its own keys
Obj(o) == [t |-> "object", s |-> "", a |-> <<>>, o |-> o]

\* x == undefined, x == null (loose equality): true of undefined and null only
IsNullish(x) == x.t \in {"undefined", "null"}

\* if (x), while (x), x || y: undefined, null and the empty string are falsy
IsTruthy(x) == ~IsNullish(x) /\ ~(x.t = "string" /\ x.s = "")

\* obj.key: undefined when the object has no such key
Get(obj, key) == IF key \in DOMAIN obj.o THEN obj.o[key] ELSE Undefined

RECURSIVE Serialize(_)
\* the JSON body axios sends for a value: keys whose value is undefined are left out
Serialize(v) ==
    IF v.t = "object"
    THEN Obj([k \in {j \in DOMAIN v.o : v.o[j] # Undefined} |-> Serialize(v.o[k])])
    ELSE v

\* x ?? y
Coalesce(x, y) == IF IsNullish(x) THEN y ELSE x

\* x || y
OrElse(x, y) == IF IsTruthy(x) THEN x ELSE y

(***************************************************************************)
(* Arrays, run-length encoded                                              *)
(***************************************************************************)
Run(v, n) == [v |-> v, n |-> n]

RECURSIVE Length(_)
\* array.length
Length(l) == IF l = <<>> THEN 0 ELSE Head(l).n + Length(Tail(l))

RECURSIVE Norm(_)
\* the encoding of the array a sequence of runs stands for
Norm(l) ==
    IF l = <<>> THEN <<>>
    ELSE IF Head(l).n = 0 THEN Norm(Tail(l))
    ELSE LET r == Norm(Tail(l))
         IN  IF r # <<>> /\ Head(r).v = Head(l).v
             THEN <<Run(Head(l).v, Head(l).n + Head(r).n)>> \o Tail(r)
             ELSE <<Head(l)>> \o r

\* a.concat(b), and a.push(...b)
Concat(a, b) == Norm(a \o b)

\* array.includes(x)
Includes(l, x) == \E i \in DOMAIN l : l[i].v = x

\* array.filter(x => !other.includes(x))
FilterNotIn(l, other) == Norm(SelectSeq(l, LAMBDA r : ~Includes(other, r.v)))

\* mintlist.map(x => x.mint)
MapMint(l) == Norm([i \in DOMAIN l |-> Run(l[i].v.mint, l[i].n)])

\* the element at index i (1-based) of the array
RECURSIVE At(_, _)
At(l, i) == IF i <= Head(l).n THEN Head(l).v ELSE At(Tail(l), i - Head(l).n)

(***************************************************************************)
(* Errors.  A message is the sequence of the pieces its template joins.    *)
(***************************************************************************)
\* new Error(message)
Error(message) ==
    [name |-> "Error", message |-> message, isAxiosError |-> FALSE,
     hasResponse |-> FALSE, dataError |-> Undefined]

\* what axios rejects with: after a response (dataError is response.data.error)
\* or without one
AxiosError(message, hasResponse, dataError) ==
    [name |-> "AxiosError", message |-> message, isAxiosError |-> TRUE,
     hasResponse |-> hasResponse, dataError |-> dataError]

\* `${err}`
ErrToString(err) == <<err.name>> \o err.message

\* err.response?.data.error
ResponseDataError(err) == IF err.hasResponse THEN err.dataError ELSE Undefined

\* the catch clause every operation ends with:
\*   isAxiosError(err) ? `error during op: ${err.response?.data.error || err}`
\*                     : `error during op: ${err}`
CatchClause(op, err) ==
    Error(<<"error during", op>> \o
          IF err.isAxiosError /\ IsTruthy(ResponseDataError(err))
          THEN <<ResponseDataError(err).s>>
          ELSE ErrToString(err))

CapacityMessage == <<"a single webhook cannot contain more than 100,000 addresses">>

QueryMissingMessage == <<"must provide query object.">>

CollectionQueryMissingMessage == <<"must provide collectionQuery object.">>

BothSelectorsMessage ==
    <<"cannot provide both firstVerifiedCreators and verifiedCollectionAddresses. Please only provide one.">>

(***************************************************************************)
(* Webhooks                                                                *)
(***************************************************************************)
\* the caller-mutable fields of a Webhook (EditWebhookRequest's keys)
Fields ==
    {"webhookURL", "transactionTypes", "accountAddresses", "accountAddressOwners",
     "webhookType", "authHeader", "txnStatus", "encoding"}

\* the address limit of appendAddressesToWebhook
AddressLimit == 100000

\* options.limit of every mintlist request of createCollectionWebhook
PageLimit == 10000

\* _editWebhook taking an empty array for a field not given
EditRequestNonEmpty(existingWebhook, editWebhookRequest) ==
    Obj([f \in Fields |->
            IF Get(editWebhookRequest, f) = Arr(<<>>)
            THEN Get(existingWebhook, f)
            ELSE Coalesce(Get(editWebhookRequest, f), Get(existingWebhook, f))])

\* _editWebhook with || in place of ??: a falsy value given counts as not given
EditRequestOrElse(existingWebhook, editWebhookRequest) ==
    Obj([f \in Fields |->
            OrElse(Get(editWebhookRequest, f), Get(existingWebhook, f))])

\* _editWebhook putting the caller's fields alone, nothing of the existing webhook
EditRequestGivenOnly(existingWebhook, editWebhookRequest) ==
    Obj([f \in Fields |-> Get(editWebhookRequest, f)])

\* the editRequest object literal of _editWebhook: every key, the caller's
\* value ?? the existing webhook's
EditRequest(existingWebhook, editWebhookRequest) ==
    Obj([f \in Fields |->
            Coalesce(Get(editWebhookRequest, f), Get(existingWebhook, f))])

\* the concatenation the other way round
AppendedAddressesInFront(webhook, newAccountAddresses) ==
    Arr(Concat(newAccountAddresses.a, Get(webhook, "accountAddresses").a))

\* appendAddressesToWebhook: webhook.accountAddresses.concat(newAccountAddresses)
AppendedAddresses(webhook, newAccountAddresses) ==
    Arr(Concat(Get(webhook, "accountAddresses").a, newAccountAddresses.a))

\* the capacity check with >= in place of >
OverCapacityAtLimit(accountAddresses) == Length(accountAddresses.a) >= AddressLimit

\* appendAddressesToWebhook: accountAddresses.length > 100_000
OverCapacity(accountAddresses) == Length(accountAddresses.a) > AddressLimit

\* a removal that takes out only the first occurrence of each address to remove
RemainingAddressesFirstOnly(webhook, addressesToRemove) ==
    LET l == Get(webhook, "accountAddresses").a
    IN  Arr(Norm(SelectSeq(
            [i \in DOMAIN l |->
                IF /\ Includes(addressesToRemove.a, l[i].v)
                   /\ \A j \in 1..(i - 1) : l[j].v # l[i].v
                THEN Run(l[i].v, l[i].n - 1) ELSE l[i]],
            LAMBDA r : r.n > 0)))

\* removeAddressesFromWebhook:
\*   webhook.accountAddresses.filter(address => !addressesToRemove.includes(address))
RemainingAddresses(webhook, addressesToRemove) ==
    Arr(FilterNotIn(Get(webhook, "accountAddresses").a, addressesToRemove.a))

\* what a rejection of the promise `return this._editWebhook(...)` hands back
\* becomes for the caller of editWebhook, appendAddressesToWebhook and
\* removeAddressesFromWebhook: the promise is returned without await, so it
\* settles the caller's promise itself and the catch clause does not run
ReturnedRejection(op, err) == err

(***************************************************************************)
(* Collection queries                                                      *)
(***************************************************************************)
\* the checks asking for exactly one selector: neither is refused like both
CollectionRequestErrorExactlyOne(request) ==
    IF IsNullish(request) \/ IsNullish(Get(request, "collectionQuery"))
    THEN Error(CollectionQueryMissingMessage)
    ELSE IF IsNullish(Get(Get(request, "collectionQuery"), "firstVerifiedCreators"))
            = IsNullish(Get(Get(request, "collectionQuery"), "verifiedCollectionAddresses"))
         THEN Error(BothSelectorsMessage)
         ELSE Undefined

\* createCollectionWebhook, the two checks before its try block: the error
\* thrown, or Undefined when none is
CollectionRequestError(request) ==
    IF IsNullish(request) \/ IsNullish(Get(request, "collectionQuery"))
    THEN Error(CollectionQueryMissingMessage)
    ELSE IF ~IsNullish(Get(Get(request, "collectionQuery"), "firstVerifiedCreators"))
            /\ ~IsNullish(Get(Get(request, "collectionQuery"), "verifiedCollectionAddresses"))
         THEN Error(BothSelectorsMessage)
         ELSE Undefined

\* getMintlist, the two checks before its try block
MintlistRequestError(request) ==
    IF IsNullish(request) \/ IsNullish(Get(request, "query"))
    THEN Error(QueryMissingMessage)
    ELSE IF ~IsNullish(Get(Get(request, "query"), "firstVerifiedCreators"))
            /\ ~IsNullish(Get(Get(request, "query"), "verifiedCollectionAddresses"))
         THEN Error(BothSelectorsMessage)
         ELSE Undefined

\* createCollectionWebhook: the query object of its mintlist requests
CollectionQuery(request) ==
    LET q == Get(request, "collectionQuery")
    IN  IF ~IsNullish(Get(q, "firstVerifiedCreators"))
        THEN Obj([firstVerifiedCreators |-> Get(q, "firstVerifiedCreators")])
        ELSE Obj([verifiedCollectionAddresses |-> Get(q, "verifiedCollectionAddresses")])

\* every page asked for as the first one is, with no cursor
MintlistRequestNoCursor(query, paginationToken) ==
    Obj([query |-> query, options |-> Obj([limit |-> Num(PageLimit)])])

\* createCollectionWebhook: the argument of its first and of its later calls
\* of getMintlist
MintlistRequest(query, paginationToken) ==
    IF paginationToken = Undefined
    THEN Obj([query |-> query, options |-> Obj([limit |-> Num(PageLimit)])])
    ELSE Obj([query |-> query,
              options |-> Obj([limit |-> Num(PageLimit),
                               paginationToken |-> paginationToken])])

\* the page taking the place of the list instead of being pushed onto it
PushedOverwriting(mintlist, mints) == Get(mints, "result").a

\* createCollectionWebhook: mintlist after mintlist.push(...mints.result)
Pushed(mintlist, mints) == Concat(mintlist, Get(mints, "result").a)

\* the loop left after the first page whatever its token
MorePagesNever(mints) == FALSE

\* the loop left at a page without items, whatever its token
MorePagesUnlessEmpty(mints) ==
    IsTruthy(Get(mints, "paginationToken")) /\ Get(mints, "result").a # <<>>

\* createCollectionWebhook: while (mints.paginationToken)
MorePages(mints) == IsTruthy(Get(mints, "paginationToken"))

\* a payload that always carries the optional fields, empty when not given
CollectionPayloadExplicit(request, mintlist) ==
    Obj([webhookURL |-> Get(request, "webhookURL"),
         accountAddresses |-> Arr(MapMint(mintlist)),
         transactionTypes |-> Get(request, "transactionTypes"),
         authHeader |-> OrElse(Get(request, "authHeader"), Str("")),
         webhookType |-> OrElse(Get(request, "webhookType"), Str(""))])

\* createCollectionWebhook: the payload it creates the webhook with
CollectionPayload(request, mintlist) ==
    LET base == [webhookURL |-> Get(request, "webhookURL"),
                 accountAddresses |-> Arr(MapMint(mintlist)),
                 transactionTypes |-> Get(request, "transactionTypes")]
        auth == IF IsTruthy(Get(request, "authHeader"))
                THEN [authHeader |-> Get(request, "authHeader")]
                ELSE <<>>
        type == IF IsTruthy(Get(request, "webhookType"))
                THEN [webhookType |-> Get(request, "webhookType")]
                ELSE <<>>
    IN  Obj(base @@ auth @@ type)

(***************************************************************************)
(* The inputs the callers and the service choose from                      *)
(***************************************************************************)
\* how many operations are invoked in a run
MaxCalls == 2

\* how many pages the service's cursor chain has at most
MaxPages == 3

Callers == {"c1", "c2"}

NoFields == [f \in Fields |-> Undefined]

\* the server-assigned part of the Webhook record
Identity == [webhookID |-> Str("w1"), wallet |-> Str("wallet"), project |-> Str("p1")]

\* a webhook with none of the optional fields
PlainWebhook(accountAddresses) ==
    Obj(Identity @@ [NoFields EXCEPT !.webhookURL = Str("urlA"),
                                     !.transactionTypes = Arr(<<Run("T1", 1)>>),
                                     !.accountAddresses = accountAddresses])

\* a webhook with every optional field
FullWebhook(accountAddresses) ==
    Obj([PlainWebhook(accountAddresses).o EXCEPT
            !.accountAddressOwners = Arr(<<Run("o1", 1)>>),
            !.webhookType = Str("enhanced"),
            !.authHeader = Str("h1"),
            !.txnStatus = Str("all"),
            !.encoding = Str("jsonParsed")])

\* the webhooks the service may hold at the start
InitialWebhooks ==
    {PlainWebhook(Arr(<<>>)),
     PlainWebhook(Arr(<<Run("a", 99995)>>)),
     FullWebhook(Arr(<<Run("a", 1), Run("b", 2), Run("a", 1)>>)),
     FullWebhook(Arr(<<Run("b", 100000)>>))}

\* the values an edit may give each field
NewValues(f) ==
    CASE f = "webhookURL" -> {Str("urlB")}
      [] f = "transactionTypes" -> {Arr(<<Run("T2", 1)>>)}
      [] f = "accountAddresses" ->
            {Arr(<<>>), Arr(<<Run("c", 2)>>), Arr(<<Run("c", 100001)>>)}
      [] f = "accountAddressOwners" -> {Arr(<<Run("o2", 1)>>)}
      [] f = "webhookType" -> {Str("raw")}
      [] f = "authHeader" -> {Str(""), Str("h2")}
      [] f = "txnStatus" -> {Str("success")}
      [] f = "encoding" -> {Str("base58")}

\* the edit requests: no field, one field, or every field given
EditRequests ==
    {Obj(NoFields)}
    \cup {Obj([NoFields EXCEPT ![f] = v]) : <<f, v>> \in
            UNION {{<<g, w>> : w \in NewValues(g)} : g \in Fields}}
    \cup {Obj([webhookURL |-> Str("urlB"),
                transactionTypes |-> Arr(<<Run("T2", 1)>>),
                accountAddresses |-> Arr(<<Run("c", 2)>>),
                accountAddressOwners |-> Arr(<<Run("o2", 1)>>),
                webhookType |-> Str("raw"), authHeader |-> Str("h2"),
                txnStatus |-> Str("success"), encoding |-> Str("base58")])}

\* the address arrays appended
NewAddressLists ==
    {Arr(<<>>), Arr(<<Run("a", 5)>>), Arr(<<Run("c", 10)>>),
     Arr(<<Run("a", 1), Run("c", 1)>>)}

\* the address arrays removed
RemoveLists ==
    {Arr(<<>>), Arr(<<Run("a", 1)>>), Arr(<<Run("z", 1)>>),
     Arr(<<Run("a", 1), Run("b", 1)>>), Arr(<<Run("b", 2), Run("z", 1)>>)}

\* the requests createWebhook is called with
CreateRequests ==
    {Obj([webhookURL |-> Str("urlA"), transactionTypes |-> Arr(<<Run("T1", 1)>>),
          accountAddresses |-> a, authHeader |-> h]) :
        a \in {Arr(<<Run("a", 2)>>), Arr(<<Run("a", 100001)>>)},
        h \in {Undefined, Str("h1")}}

Selectors == {Undefined, Arr(<<Run("k1", 1), Run("k2", 1)>>)}

\* the collectionQuery / query values: absent, or an object with both keys
Queries ==
    {Undefined, Null}
    \cup {Obj([firstVerifiedCreators |-> x, verifiedCollectionAddresses |-> y]) :
            x \in Selectors, y \in Selectors}

ByCollections ==
    Obj([firstVerifiedCreators |-> Undefined,
         verifiedCollectionAddresses |-> Arr(<<Run("k1", 1), Run("k2", 1)>>)])

CollectionRequestOf(q, authHeader, webhookType) ==
    Obj([collectionQuery |-> q, webhookURL |-> Str("urlA"),
         transactionTypes |-> Arr(<<Run("T1", 1)>>),
         accountAddresses |-> Arr(<<Run("x", 1)>>),
         authHeader |-> authHeader, webhookType |-> webhookType])

\* the requests createCollectionWebhook is called with
CollectionRequests ==
    {Undefined, Null}
    \cup {CollectionRequestOf(q, Undefined, Undefined) : q \in Queries}
    \cup {CollectionRequestOf(ByCollections, Str(""), Undefined),
          CollectionRequestOf(ByCollections, Undefined, Str("raw")),
          CollectionRequestOf(ByCollections, Str("h1"), Str("raw"))}

\* the requests getMintlist is called with
MintlistRequests ==
    {Undefined, Null}
    \cup {Obj([query |-> q]) : q \in Queries}
    \cup {Obj([query |-> ByCollections,
               options |-> Obj([limit |-> Num(2), paginationToken |-> Str("t1")])])}

Item(mint) == [mint |-> mint, name |-> "nft"]

\* the item arrays of the service's pages
Pages ==
    {<<>>, <<Run(Item("m1"), 10000)>>, <<Run(Item("m2"), 3)>>,
     <<Run(Item("m1"), 1), Run(Item("m2"), 1)>>}

\* the paginationToken of a MintlistResponse
Tokens == {Undefined, Str(""), Str("t1"), Str("t2")}

\* how the transport fails
TransportFailures ==
    {AxiosError(<<"Network Error">>, FALSE, Undefined),
     AxiosError(<<"Request failed with status code 400">>, TRUE, Str("bad request")),
     AxiosError(<<"Request failed with status code 500">>, TRUE, Undefined)}

(***************************************************************************)
(* State                                                                   *)
(***************************************************************************)
VARIABLES
    server,   \* the webhook the service holds under the webhookID the callers use
    call,     \* per caller: the operation in progress, its locals and its promise
    reqs,     \* per caller: the requests its current operation has sent, in order
    resps,    \* per caller: the mintlist responses its current operation has received
    ncalls    \* operations invoked so far

vars == <<server, call, reqs, resps, ncalls>>

Pending == [status |-> "pending", value |-> Undefined]

Fulfilled(value) == [status |-> "fulfilled", value |-> value]

Rejected(err) == [status |-> "rejected", value |-> err]

\* what a caller keeps of the call it made before the current one
NoCall == [op |-> "none", args |-> Undefined, result |-> Pending]

\* a caller with no operation in progress
Idle ==
    [op |-> "none", pc |-> "idle", args |-> Undefined, webhook |-> Undefined,
     query |-> Undefined, mints |-> Undefined, mintlist |-> <<>>, result |-> Pending,
     prev |-> NoCall]

\* the settled call a caller has in hand when it makes the next one
Settled(c) == [op |-> call[c].op, args |-> call[c].args, result |-> call[c].result]

Request(method, path, body) == [method |-> method, path |-> path, body |-> body]

Init ==
    /\ server \in InitialWebhooks
    /\ call = [c \in Callers |-> Idle]
    /\ reqs = [c \in Callers |-> <<>>]
    /\ resps = [c \in Callers |-> <<>>]
    /\ ncalls = 0

CanInvoke(c) == call[c].pc \in {"idle", "done"} /\ ncalls < MaxCalls

\* the operation of caller c settles its promise and ends
Settle(c, result) ==
    call' = [call EXCEPT ![c].pc = "done", ![c].result = result]

\* the operation of caller c sends a request
Send(c, request) == reqs' = [reqs EXCEPT ![c] = Append(@, request)]

(***************************************************************************)
(* The remote service                                                      *)
(***************************************************************************)
\* GET /v0/webhooks/{id}
FetchWebhook == server

\* PUT /v0/webhooks/{id}: the record is replaced whole, its identity kept
ReplaceWebhook(body) ==
    Obj([k \in DOMAIN Identity \cup Fields |->
            IF k \in DOMAIN Identity THEN Get(server, k) ELSE Get(body, k)])

\* POST /v0/webhooks: the created record, with the identity the service assigns
CreatedWebhook(body) ==
    Obj([k \in DOMAIN Identity \cup Fields |->
            IF k = "webhookID" THEN Str("w2")
            ELSE IF k \in DOMAIN Identity THEN Identity[k] ELSE Get(body, k)])

\* POST /v1/mintlist: a page of items, with a cursor or without
MintlistResponses ==
    {Obj([result |-> Arr(page), paginationToken |-> token]) :
        page \in Pages, token \in Tokens}

(***************************************************************************)
(* editWebhook, appendAddressesToWebhook, removeAddressesFromWebhook       *)
(***************************************************************************)
WebhookPath == "/v0/webhooks/w1"

\* an operation that begins with `await this.getWebhookByID(webhookID)`
Fetching(c, op, args) ==
    /\ call' = [call EXCEPT ![c] =
                    [Idle EXCEPT !.op = op, !.pc = "getWebhookByID", !.args = args,
                                 !.prev = Settled(c)]]
    /\ reqs' = [reqs EXCEPT ![c] = <<Request("GET", WebhookPath, Undefined)>>]
    /\ resps' = [resps EXCEPT ![c] = <<>>]
    /\ ncalls' = ncalls + 1
    /\ UNCHANGED server

\* editWebhook(webhookID, editWebhookRequest), to its first await
editWebhook(c) ==
    /\ CanInvoke(c)
    /\ \E editWebhookRequest \in EditRequests :
          Fetching(c, "editWebhook", editWebhookRequest)

\* appendAddressesToWebhook(webhookID, newAccountAddresses), to its first await
appendAddressesToWebhook(c) ==
    /\ CanInvoke(c)
    /\ \E newAccountAddresses \in NewAddressLists :
          Fetching(c, "appendAddressesToWebhook", newAccountAddresses)

\* removeAddressesFromWebhook(webhookID, addressesToRemove), to its first await
removeAddressesFromWebhook(c) ==
    /\ CanInvoke(c)
    /\ \E addressesToRemove \in RemoveLists :
          Fetching(c, "removeAddressesFromWebhook", addressesToRemove)

\* _editWebhook(webhookID, existingWebhook, editWebhookRequest), to its await:
\* the merged record is put
PutEdit(c, existingWebhook, editWebhookRequest) ==
    /\ call' = [call EXCEPT ![c].pc = "_editWebhook", ![c].webhook = existingWebhook]
    /\ Send(c, Request("PUT", WebhookPath,
                       Serialize(EditRequest(existingWebhook, editWebhookRequest))))
    /\ UNCHANGED <<server, resps, ncalls>>

\* editWebhook once getWebhookByID has answered
editWebhookFetched(c) ==
    /\ call[c].op = "editWebhook" /\ call[c].pc = "getWebhookByID"
    /\ PutEdit(c, FetchWebhook, call[c].args)

\* appendAddressesToWebhook once getWebhookByID has answered
appendAddressesFetched(c) ==
    /\ call[c].op = "appendAddressesToWebhook" /\ call[c].pc = "getWebhookByID"
    /\ LET webhook == FetchWebhook
           accountAddresses == AppendedAddresses(webhook, call[c].args)
       IN  IF OverCapacity(accountAddresses)
           THEN /\ call' = [call EXCEPT
                      ![c].pc = "done", ![c].webhook = webhook,
                      ![c].result = Rejected(CatchClause(call[c].op,
                                                         Error(CapacityMessage)))]
                /\ UNCHANGED <<server, reqs, resps, ncalls>>
           ELSE PutEdit(c, webhook, Obj([accountAddresses |-> accountAddresses]))

\* removeAddressesFromWebhook once getWebhookByID has answered
removeAddressesFetched(c) ==
    /\ call[c].op = "removeAddressesFromWebhook" /\ call[c].pc = "getWebhookByID"
    /\ LET webhook == FetchWebhook
           accountAddresses == RemainingAddresses(webhook, call[c].args)
       IN  PutEdit(c, webhook, Obj([accountAddresses |-> accountAddresses]))

\* getWebhookByID fails: its catch clause, then the catch clause of the operation
\* that awaited it
getWebhookByIDThrows(c) ==
    /\ call[c].pc = "getWebhookByID"
    /\ \E err \in TransportFailures :
          Settle(c, Rejected(CatchClause(call[c].op,
                                         CatchClause("getWebhookByID", err))))
    /\ UNCHANGED <<server, reqs, resps, ncalls>>

\* the put of _editWebhook is answered: the service holds the new record,
\* which is what the operation returns
editWebhookReturns(c) ==
    /\ call[c].pc = "_editWebhook"
    /\ LET data == ReplaceWebhook(reqs[c][Len(reqs[c])].body)
       IN  /\ server' = data
           /\ Settle(c, Fulfilled(data))
    /\ UNCHANGED <<reqs, resps, ncalls>>

\* the put of _editWebhook fails
editWebhookThrows(c) ==
    /\ call[c].pc = "_editWebhook"
    /\ \E err \in TransportFailures :
          Settle(c, Rejected(ReturnedRejection(call[c].op, err)))
    /\ UNCHANGED <<server, reqs, resps, ncalls>>

(***************************************************************************)
(* createWebhook, getMintlist, createCollectionWebhook                     *)
(***************************************************************************)
\* createWebhook(createWebhookRequest), to its await
createWebhook(c) ==
    /\ CanInvoke(c)
    /\ \E createWebhookRequest \in CreateRequests :
          /\ call' = [call EXCEPT ![c] =
                          [Idle EXCEPT !.op = "createWebhook", !.pc = "createWebhook",
                                       !.args = createWebhookRequest]]
          /\ reqs' = [reqs EXCEPT ![c] =
                          <<Request("POST", "/v0/webhooks",
                                    Serialize(createWebhookRequest))>>]
    /\ resps' = [resps EXCEPT ![c] = <<>>]
    /\ ncalls' = ncalls + 1
    /\ UNCHANGED server

\* getMintlist(request), to its await: the checks, then the post
getMintlist(c) ==
    /\ CanInvoke(c)
    /\ \E request \in MintlistRequests :
          IF MintlistRequestError(request) # Undefined
          THEN /\ call' = [call EXCEPT ![c] =
                              [Idle EXCEPT !.op = "getMintlist", !.pc = "done",
                                   !.args = request,
                                   !.result = Rejected(MintlistRequestError(request))]]
               /\ reqs' = [reqs EXCEPT ![c] = <<>>]
          ELSE /\ call' = [call EXCEPT ![c] =
                              [Idle EXCEPT !.op = "getMintlist", !.pc = "getMintlist",
                                   !.args = request]]
               /\ reqs' = [reqs EXCEPT ![c] =
                              <<Request("POST", "/v1/mintlist", Serialize(request))>>]
    /\ resps' = [resps EXCEPT ![c] = <<>>]
    /\ ncalls' = ncalls + 1
    /\ UNCHANGED server

\* createCollectionWebhook(request), to its first await: its own checks, then
\* getMintlist's (inside the try block, so caught by the catch clause), then
\* the post of the first page request
createCollectionWebhook(c) ==
    /\ CanInvoke(c)
    /\ \E request \in CollectionRequests :
          IF CollectionRequestError(request) # Undefined
          THEN /\ call' = [call EXCEPT ![c] =
                              [Idle EXCEPT !.op = "createCollectionWebhook",
                                   !.pc = "done", !.args = request,
                                   !.result = Rejected(CollectionRequestError(request))]]
               /\ reqs' = [reqs EXCEPT ![c] = <<>>]
          ELSE LET query == CollectionQuery(request)
                   mintlistRequest == MintlistRequest(query, Undefined)
               IN  IF MintlistRequestError(mintlistRequest) # Undefined
                   THEN /\ call' = [call EXCEPT ![c] =
                              [Idle EXCEPT !.op = "createCollectionWebhook",
                                   !.pc = "done", !.args = request, !.query = query,
                                   !.result = Rejected(CatchClause(
                                       "createCollectionWebhook",
                                       MintlistRequestError(mintlistRequest)))]]
                        /\ reqs' = [reqs EXCEPT ![c] = <<>>]
                   ELSE /\ call' = [call EXCEPT ![c] =
                              [Idle EXCEPT !.op = "createCollectionWebhook",
                                   !.pc = "getMintlist", !.args = request,
                                   !.query = query]]
                        /\ reqs' = [reqs EXCEPT ![c] =
                              <<Request("POST", "/v1/mintlist",
                                        Serialize(mintlistRequest))>>]
    /\ resps' = [resps EXCEPT ![c] = <<>>]
    /\ ncalls' = ncalls + 1
    /\ UNCHANGED server

\* getMintlist, called by the caller, is answered
getMintlistReturns(c) ==
    /\ call[c].op = "getMintlist" /\ call[c].pc = "getMintlist"
    /\ \E data \in MintlistResponses :
          /\ Settle(c, Fulfilled(data))
          /\ resps' = [resps EXCEPT ![c] = Append(@, data)]
    /\ UNCHANGED <<server, reqs, ncalls>>

\* createCollectionWebhook once a page has arrived: the items are pushed; with
\* a truthy paginationToken the next page is asked for, otherwise the payload
\* is built and createWebhook called
createCollectionWebhookPage(c) ==
    /\ call[c].op = "createCollectionWebhook" /\ call[c].pc = "getMintlist"
    /\ \E mints \in MintlistResponses :
          /\ IsTruthy(Get(mints, "paginationToken")) => Len(resps[c]) + 1 < MaxPages
          /\ resps' = [resps EXCEPT ![c] = Append(@, mints)]
          /\ \E mintlist \in {Pushed(call[c].mintlist, mints)} :
             \E next \in {MintlistRequest(call[c].query, Get(mints, "paginationToken"))},
                payload \in {CollectionPayload(call[c].args, mintlist)} :
                 IF MorePages(mints)
                 THEN IF MintlistRequestError(next) # Undefined
                      THEN /\ call' = [call EXCEPT
                                 ![c].pc = "done", ![c].mints = mints,
                                 ![c].mintlist = mintlist,
                                 ![c].result = Rejected(CatchClause(
                                     "createCollectionWebhook",
                                     MintlistRequestError(next)))]
                           /\ UNCHANGED reqs
                      ELSE /\ call' = [call EXCEPT
                                 ![c].mints = mints, ![c].mintlist = mintlist]
                           /\ Send(c, Request("POST", "/v1/mintlist", Serialize(next)))
                 ELSE /\ call' = [call EXCEPT
                            ![c].pc = "createWebhook", ![c].mints = mints,
                            ![c].mintlist = mintlist]
                      /\ Send(c, Request("POST", "/v0/webhooks", Serialize(payload)))
    /\ UNCHANGED <<server, ncalls>>

\* the post of getMintlist fails: its catch clause, and for a page of
\* createCollectionWebhook that operation's catch clause after it
getMintlistThrows(c) ==
    /\ call[c].pc = "getMintlist"
    /\ \E err \in TransportFailures :
          Settle(c, Rejected(
              IF call[c].op = "getMintlist"
              THEN CatchClause("getMintlist", err)
              ELSE CatchClause(call[c].op, CatchClause("getMintlist", err))))
    /\ UNCHANGED <<server, reqs, resps, ncalls>>

\* the post of createWebhook is answered with the created record
createWebhookReturns(c) ==
    /\ call[c].pc = "createWebhook"
    /\ Settle(c, Fulfilled(CreatedWebhook(reqs[c][Len(reqs[c])].body)))
    /\ UNCHANGED <<server, reqs, resps, ncalls>>

\* the post of createWebhook fails: its catch clause, and for
\* createCollectionWebhook, which awaits it, that operation's catch clause after it
createWebhookThrows(c) ==
    /\ call[c].pc = "createWebhook"
    /\ \E err \in TransportFailures :
          Settle(c, Rejected(
              IF call[c].op = "createWebhook"
              THEN CatchClause("createWebhook", err)
              ELSE CatchClause(call[c].op, CatchClause("createWebhook", err))))
    /\ UNCHANGED <<server, reqs, resps, ncalls>>

(***************************************************************************)
(* Specifications                                                          *)
(***************************************************************************)
\* the operations on the webhook, and createWebhook
WebhookStep(c) ==
    \/ editWebhook(c)
    \/ appendAddressesToWebhook(c)
    \/ removeAddressesFromWebhook(c)
    \/ createWebhook(c)
    \/ editWebhookFetched(c)
    \/ appendAddressesFetched(c)
    \/ removeAddressesFetched(c)
    \/ getWebhookByIDThrows(c)
    \/ editWebhookReturns(c)
    \/ editWebhookThrows(c)
    \/ createWebhookReturns(c)
    \/ createWebhookThrows(c)

\* the operations on a collection
CollectionStep(c) ==
    \/ getMintlist(c)
    \/ createCollectionWebhook(c)
    \/ getMintlistReturns(c)
    \/ createCollectionWebhookPage(c)
    \/ getMintlistThrows(c)
    \/ createWebhookReturns(c)
    \/ createWebhookThrows(c)

\* one caller, one operation on the webhook after the other
Next == WebhookStep("c1")

Spec == Init /\ [][Next]_vars

\* one caller, one operation on a collection after the other; no operation
\* here reads or writes the webhook the service holds
InitCollection == Init /\ server = PlainWebhook(Arr(<<>>))

NextCollection == CollectionStep("c1")

SpecCollection == InitCollection /\ [][NextCollection]_vars

\* a caller's one operation that fetches the webhook and puts it back
MutationStep(c) ==
    \/ call[c].pc = "idle" /\ editWebhook(c)
    \/ call[c].pc = "idle" /\ appendAddressesToWebhook(c)
    \/ call[c].pc = "idle" /\ removeAddressesFromWebhook(c)
    \/ editWebhookFetched(c)
    \/ appendAddressesFetched(c)
    \/ removeAddressesFetched(c)
    \/ getWebhookByIDThrows(c)
    \/ editWebhookReturns(c)
    \/ editWebhookThrows(c)

\* two callers, each with one such operation on the same webhook, their awaits
\* interleaved in any order
NextConcurrent == \E c \in Callers : MutationStep(c)

SpecConcurrent == Init /\ [][NextConcurrent]_vars

\* one createCollectionWebhook, from its call to its end
DrainStep(c) ==
    \/ call[c].pc = "idle" /\ createCollectionWebhook(c)
    \/ createCollectionWebhookPage(c)
    \/ getMintlistThrows(c)
    \/ createWebhookReturns(c)
    \/ createWebhookThrows(c)

\* a remote call that createCollectionWebhook awaits is answered or fails
Responds(c) ==
    \/ createCollectionWebhookPage(c)
    \/ getMintlistThrows(c)
    \/ createWebhookReturns(c)
    \/ createWebhookThrows(c)

NextDrain == DrainStep("c1")

\* every remote call awaited is eventually answered or fails; the service's
\* cursor chain ends after at most MaxPages pages
SpecDrain == InitCollection /\ [][NextDrain]_vars /\ WF_vars(Responds("c1"))

(***************************************************************************)
(* What the claims speak of                                                *)
(***************************************************************************)
\* the requests of caller c's operation with this method and path
Sent(c, method, path) ==
    SelectSeq(reqs[c], LAMBDA r : r.method = method /\ r.path = path)

\* the operation of caller c has put a record
HasPut(c) == Sent(c, "PUT", WebhookPath) # <<>>

\* the record it has put
PutBody(c) == Sent(c, "PUT", WebhookPath)[1].body

\* the caller gave this field of the edit request
Provided(editWebhookRequest, f) == Get(editWebhookRequest, f) # Undefined

\* the number of entries before each run of an array, and its length
Cuts(l) == {Length(SubSeq(l, 1, k)) : k \in 0..Len(l)}

\* the indices at which an array built from these arrays can change value
Probes(cuts, length) == {i \in cuts \cup {k + 1 : k \in cuts} : 1 <= i /\ i <= length}

\* array w is array e followed by array n, entry by entry
IsConcatOf(w, e, n) ==
    /\ Length(w) = Length(e) + Length(n)
    /\ \A i \in Probes(Cuts(w) \cup Cuts(e) \cup {Length(e) + k : k \in Cuts(n)},
                       Length(w)) :
          At(w, i) = IF i <= Length(e) THEN At(e, i) ELSE At(n, i - Length(e))

(***************************************************************************)
(* C1  Edit merge: the record editWebhook puts has, for each of the eight  *)
(* caller-mutable fields, the caller's value if the caller gave the field  *)
(* and the fetched webhook's value otherwise.                              *)
(***************************************************************************)
C1_EditMerge ==
    \A c \in Callers :
        (call[c].op = "editWebhook" /\ HasPut(c)) =>
            \A f \in Fields :
                Get(PutBody(c), f) =
                    IF Provided(call[c].args, f)
                    THEN Get(call[c].args, f)
                    ELSE Get(call[c].webhook, f)

\* existing {url: A, types: [T1]} edited with {types: [T2]} alone
C1_Witness ==
    \E c \in Callers :
        /\ call[c].op = "editWebhook" /\ HasPut(c)
        /\ {f \in Fields : Provided(call[c].args, f)} = {"transactionTypes"}
        /\ Get(call[c].webhook, "webhookURL") = Str("urlA")
        /\ Get(call[c].webhook, "transactionTypes") = Arr(<<Run("T1", 1)>>)
        /\ Get(PutBody(c), "webhookURL") = Str("urlA")
        /\ Get(PutBody(c), "transactionTypes") = Arr(<<Run("T2", 1)>>)

IsCapacityError(result) ==
    /\ result.status = "rejected"
    /\ result.value.message[Len(result.value.message)] = CapacityMessage[1]

AppendTotal(c) ==
    Length(Get(call[c].webhook, "accountAddresses").a) + Length(call[c].args.a)

C3_AddressCeiling ==
    /\ Length(Get(server, "accountAddresses").a) <= 100000
    /\ \A c \in Callers : \A i \in DOMAIN reqs[c] :
          reqs[c][i].path \in {WebhookPath, "/v0/webhooks"}
          /\ reqs[c][i].method \in {"PUT", "POST"}
          => Length(Get(reqs[c][i].body, "accountAddresses").a) <= 100000

\* the detail a transport failure is reported by: response.data.error, or the
\* failure's own text
TransportDetails ==
    {IF err.hasResponse /\ IsTruthy(err.dataError)
     THEN err.dataError.s ELSE err.message[1] : err \in TransportFailures}

\* the operation of caller c ended because a remote call of it failed
RemoteCallFailed(c) ==
    /\ call[c].pc = "done"
    /\ call[c].result.status = "rejected"
    /\ reqs[c] # <<>>
    /\ ~IsCapacityError(call[c].result)

(***************************************************************************)
(* C4  Failure propagation: when a remote call of editWebhook,             *)
(* appendAddressesToWebhook, removeAddressesFromWebhook or                 *)
(* createCollectionWebhook fails, the caller gets an Error whose message   *)
(* names the operation and carries the transport's detail, and no request  *)
(* is sent a second time.                                                  *)
(***************************************************************************)
C4_FailurePropagation ==
    \A c \in Callers :
        call[c].op \in {"editWebhook", "appendAddressesToWebhook",
                        "removeAddressesFromWebhook", "createCollectionWebhook"} =>
            /\ RemoteCallFailed(c) =>
                  LET err == call[c].result.value
                  IN  /\ err.name = "Error"
                      /\ SubSeq(err.message, 1, 2) = <<"error during", call[c].op>>
                      /\ err.message[Len(err.message)] \in TransportDetails
            /\ Len(Sent(c, "GET", WebhookPath)) <= 1
            /\ Len(Sent(c, "PUT", WebhookPath)) <= 1
            /\ Len(Sent(c, "POST", "/v0/webhooks")) <= 1

(***************************************************************************)
(* C9  Append result: the record appendAddressesToWebhook puts has the     *)
(* fetched address list followed by the new addresses, in that order and   *)
(* with duplicates kept, and every other mutable field as fetched.         *)
(***************************************************************************)
C9_AppendResult ==
    \A c \in Callers :
        (call[c].op = "appendAddressesToWebhook" /\ HasPut(c)) =>
            /\ IsConcatOf(Get(PutBody(c), "accountAddresses").a,
                          Get(call[c].webhook, "accountAddresses").a,
                          call[c].args.a)
            /\ \A f \in Fields \ {"accountAddresses"} :
                  Get(PutBody(c), f) = Get(call[c].webhook, f)

\* [a, b, b, a] with [a, c] appended: the duplicate a is kept, behind the old list
C9_Witness ==
    \E c \in Callers :
        /\ call[c].op = "appendAddressesToWebhook" /\ HasPut(c)
        /\ Get(call[c].webhook, "accountAddresses") =
              Arr(<<Run("a", 1), Run("b", 2), Run("a", 1)>>)
        /\ call[c].args = Arr(<<Run("a", 1), Run("c", 1)>>)
        /\ Get(PutBody(c), "accountAddresses") =
              Arr(<<Run("a", 1), Run("b", 2), Run("a", 2), Run("c", 1)>>)
        /\ Get(PutBody(c), "authHeader") = Str("h1")

Values(l) == {l[i].v : i \in DOMAIN l}

\* how many entries of array e before its run j are not in the set removed
RECURSIVE KeptBefore(_, _, _)
KeptBefore(e, removed, j) ==
    IF j <= 1 THEN 0
    ELSE KeptBefore(e, removed, j - 1)
         + (IF e[j - 1].v \in removed THEN 0 ELSE e[j - 1].n)

\* array w is array e without the entries in the set removed, entry by entry
IsFilterOf(w, e, removed) ==
    /\ Length(w) = KeptBefore(e, removed, Len(e) + 1)
    /\ \A j \in DOMAIN e :
          e[j].v \notin removed =>
              \A i \in Probes(Cuts(w) \cup {KeptBefore(e, removed, j),
                                           KeptBefore(e, removed, j + 1) - 1},
                              Length(w)) :
                  (KeptBefore(e, removed, j) < i /\ i <= KeptBefore(e, removed, j + 1))
                      => At(w, i) = e[j].v

(***************************************************************************)
(* C10  Remove result: the record removeAddressesFromWebhook puts has the  *)
(* fetched address list without any occurrence of an address to remove,    *)
(* the rest in their order; an address to remove that is not in the list   *)
(* changes nothing and raises no error; removing every address puts an     *)
(* empty list.                                                             *)
(***************************************************************************)
C10_RemoveResult ==
    \A c \in Callers :
        call[c].op = "removeAddressesFromWebhook" =>
           /\ call[c].webhook # Undefined => HasPut(c)
           /\ HasPut(c) =>
              LET w == Get(PutBody(c), "accountAddresses")
                  e == Get(call[c].webhook, "accountAddresses").a
                  removed == Values(call[c].args.a)
              IN  /\ w.t = "array"
                  /\ IsFilterOf(w.a, e, removed)
                  /\ (Values(e) \cap removed = {}) => w.a = e
                  /\ (Values(e) \subseteq removed) => w.a = <<>>

\* every address of [a, b, b, a] removed: the empty list is put, not the old one
C10_Witness ==
    \E c \in Callers :
        /\ call[c].op = "removeAddressesFromWebhook" /\ HasPut(c)
        /\ Get(call[c].webhook, "accountAddresses") =
              Arr(<<Run("a", 1), Run("b", 2), Run("a", 1)>>)
        /\ call[c].args = Arr(<<Run("a", 1), Run("b", 1)>>)
        /\ Get(PutBody(c), "accountAddresses") = Arr(<<>>)

\* caller c has completed a removal, having completed one before it
RemovedAgain(c) ==
    /\ call[c].op = "removeAddressesFromWebhook"
    /\ call[c].pc = "done" /\ call[c].result.status = "fulfilled"
    /\ call[c].prev.op = "removeAddressesFromWebhook"
    /\ call[c].prev.result.status = "fulfilled"
    /\ call[c].prev.args = call[c].args

(***************************************************************************)
(* C11  Remove idempotence: when a caller's removeAddressesFromWebhook has *)
(* succeeded and the call it made before was a successful removal of the   *)
(* same addresses, with nobody else writing in between, the webhook on the *)
(* server after the second call is, in its address list and in every other *)
(* field, the webhook the first call left and returned.                    *)
(***************************************************************************)
C11_RemoveIdempotent ==
    \A c \in Callers :
        RemovedAgain(c) =>
            /\ call[c].webhook = call[c].prev.result.value
            /\ server = call[c].prev.result.value
            /\ call[c].result.value = call[c].prev.result.value

\* a removal that took addresses out the first time, done a second time
C11_Witness ==
    \E c \in Callers :
        /\ RemovedAgain(c)
        /\ call[c].args = Arr(<<Run("b", 2), Run("z", 1)>>)
        /\ Get(server, "accountAddresses") = Arr(<<Run("a", 2)>>)
        /\ Get(server, "authHeader") = Str("h1")

\* the query object of the request caller c made
QueryGiven(c) ==
    Get(call[c].args,
        IF call[c].op = "createCollectionWebhook" THEN "collectionQuery" ELSE "query")

\* the selector is set: it is neither undefined nor null
IsSet(c, selector) == Get(QueryGiven(c), selector).t \notin {"undefined", "null"}

\* the operation of caller c was refused before its try block
Refused(c) ==
    /\ call[c].pc = "done"
    /\ call[c].result.status = "rejected"
    /\ call[c].result.value.message \in
          {QueryMissingMessage, CollectionQueryMissingMessage, BothSelectorsMessage}

C6_NeitherSelectorRefused ==
    \A c \in Callers :
        (/\ call[c].op \in {"createCollectionWebhook", "getMintlist"}
         /\ call[c].args.t = "object" /\ QueryGiven(c).t = "object"
         /\ ~IsSet(c, "firstVerifiedCreators")
         /\ ~IsSet(c, "verifiedCollectionAddresses"))
        => Refused(c) /\ reqs[c] = <<>>

\* the mints of the items of pages k.. of the responses, in order
RECURSIVE MintsFrom(_, _)
MintsFrom(pages, k) ==
    IF k > Len(pages) THEN <<>>
    ELSE LET items == Get(pages[k], "result").a
         IN  [i \in DOMAIN items |-> Run(items[i].v.mint, items[i].n)]
             \o MintsFrom(pages, k + 1)

RECURSIVE ItemCount(_, _)
ItemCount(pages, k) ==
    IF k > Len(pages) THEN 0
    ELSE Length(Get(pages[k], "result").a) + ItemCount(pages, k + 1)

\* array w and the run sequence l hold the same entries, entry by entry
IsSameArray(w, l) ==
    /\ Length(w) = Length(l)
    /\ \A i \in Probes(Cuts(w) \cup Cuts(l), Length(w)) : At(w, i) = At(l, i)

(***************************************************************************)
(* C7  Collection webhook address set: when createCollectionWebhook has    *)
(* succeeded it has sent one create request, whose accountAddresses are    *)
(* the mints of the items of the pages received, page after page and in    *)
(* each page's order, none dropped, added or merged.                       *)
(***************************************************************************)
C7_CollectionAddresses ==
    \A c \in Callers :
        (call[c].op = "createCollectionWebhook" /\ call[c].result.status = "fulfilled") =>
            /\ Len(Sent(c, "POST", "/v0/webhooks")) = 1
            /\ LET sent == Get(Sent(c, "POST", "/v0/webhooks")[1].body, "accountAddresses")
               IN  /\ sent.t = "array"
                   /\ IsSameArray(sent.a, MintsFrom(resps[c], 1))
                   /\ Length(sent.a) = ItemCount(resps[c], 1)
                   /\ Get(call[c].result.value, "accountAddresses") = sent

\* three pages of 10000, 10000 and 3 items: 20,003 addresses
C7_Witness ==
    \E c \in Callers :
        /\ call[c].op = "createCollectionWebhook"
        /\ call[c].result.status = "fulfilled"
        /\ Len(resps[c]) = 3
        /\ Length(Get(resps[c][1], "result").a) = 10000
        /\ Length(Get(resps[c][2], "result").a) = 10000
        /\ Length(Get(resps[c][3], "result").a) = 3
        /\ Get(call[c].args, "collectionQuery") = ByCollections
        /\ Length(Get(call[c].result.value, "accountAddresses").a) = 20003

\* the answer carries a cursor
HasCursor(mints) ==
    Get(mints, "paginationToken") \notin {Undefined, Null, Str("")}

(***************************************************************************)
(* C8  All-or-nothing drain: when a page request of createCollectionWebhook*)
(* has failed, the operation has failed with an error and no create        *)
(* request was sent; a create request is sent only once every page request *)
(* was answered and the last answer had no cursor.                         *)
(***************************************************************************)
C8_AllOrNothing ==
    \A c \in Callers :
        call[c].op = "createCollectionWebhook" =>
            /\ (call[c].pc = "done" /\ Len(resps[c]) < Len(Sent(c, "POST", "/v1/mintlist")))
                  => /\ call[c].result.status = "rejected"
                     /\ call[c].result.value.name = "Error"
                     /\ Sent(c, "POST", "/v0/webhooks") = <<>>
            /\ Sent(c, "POST", "/v0/webhooks") # <<>>
                  => /\ resps[c] # <<>>
                     /\ Len(resps[c]) = Len(Sent(c, "POST", "/v1/mintlist"))
                     /\ ~HasCursor(resps[c][Len(resps[c])])
                     /\ \A k \in 1..(Len(resps[c]) - 1) : HasCursor(resps[c][k])

\* the second page request fails after a first page of 10000 items
C8_Witness ==
    \E c \in Callers :
        /\ call[c].op = "createCollectionWebhook"
        /\ call[c].pc = "done"
        /\ Len(resps[c]) = 1
        /\ Len(Sent(c, "POST", "/v1/mintlist")) = 2
        /\ Length(call[c].mintlist) = 10000
        /\ call[c].result.status = "rejected"
        /\ Sent(c, "POST", "/v0/webhooks") = <<>>

\* the create request caller c has sent
HasCreate(c) == Sent(c, "POST", "/v0/webhooks") # <<>>

CreateBody(c) == Sent(c, "POST", "/v0/webhooks")[1].body

\* the fields CreateCollectionWebhookRequest leaves to the caller's choice
OptionalCreateFields == {"authHeader", "webhookType"}

(***************************************************************************)
(* C12  Optional create fields: the create request createCollectionWebhook *)
(* sends has the key authHeader, and the key webhookType, only when the    *)
(* caller gave that field, and then with the caller's value; for a field   *)
(* the caller left out the body has no such key, with no empty or null     *)
(* value in its place.                                                     *)
(***************************************************************************)
C12_OptionalCreateFields ==
    \A c \in Callers :
        (call[c].op = "createCollectionWebhook" /\ HasCreate(c)) =>
            \A f \in OptionalCreateFields :
                /\ f \in DOMAIN CreateBody(c).o =>
                      /\ Provided(call[c].args, f)
                      /\ CreateBody(c).o[f] = Get(call[c].args, f)
                /\ ~Provided(call[c].args, f) => f \notin DOMAIN CreateBody(c).o

\* a create request for a caller who gave webhookType and left authHeader out
C12_Witness ==
    \E c \in Callers :
        /\ call[c].op = "createCollectionWebhook" /\ HasCreate(c)
        /\ ~Provided(call[c].args, "authHeader")
        /\ Get(call[c].args, "webhookType") = Str("raw")
        /\ DOMAIN CreateBody(c).o =
              {"webhookURL", "accountAddresses", "transactionTypes", "webhookType"}
        /\ CreateBody(c).o.webhookType = Str("raw")

\* the page requests caller c has sent
PageRequests(c) == Sent(c, "POST", "/v1/mintlist")

\* the options of its k-th page request
PageOptions(c, k) == Get(PageRequests(c)[k].body, "options")

(***************************************************************************)
(* C14  Page request protocol: in a drain of createCollectionWebhook the   *)
(* page requests sent exceed the responses received by at most one; every  *)
(* response received is already appended to the list; the first request    *)
(* has no cursor; the k-th request, k > 1, was sent after response k - 1,  *)
(* which had a cursor, and carries exactly that cursor; every request      *)
(* carries the same query and the limit 10,000 and nothing else; and once  *)
(* the create request is sent the last response had no cursor and there    *)
(* are as many page requests as responses.                                 *)
(***************************************************************************)
C14_PageProtocol ==
    \A c \in Callers :
        call[c].op = "createCollectionWebhook" =>
            LET P == PageRequests(c)
                R == resps[c]
            IN  /\ Len(P) \in {Len(R), Len(R) + 1}
                /\ Len(P) = Len(R) + 1 =>
                      \/ call[c].pc = "getMintlist"
                      \/ call[c].pc = "done" /\ call[c].result.status = "rejected"
                /\ Length(call[c].mintlist) = ItemCount(R, 1)
                /\ P # <<>> => "paginationToken" \notin DOMAIN PageOptions(c, 1).o
                /\ \A k \in 2..Len(P) :
                      /\ HasCursor(R[k - 1])
                      /\ "paginationToken" \in DOMAIN PageOptions(c, k).o
                      /\ Get(PageOptions(c, k), "paginationToken") =
                            Get(R[k - 1], "paginationToken")
                /\ \A k \in 1..Len(P) :
                      /\ DOMAIN P[k].body.o = {"query", "options"}
                      /\ Get(P[k].body, "query") = Serialize(call[c].query)
                      /\ Get(PageOptions(c, k), "limit") = Num(PageLimit)
                      /\ DOMAIN PageOptions(c, k).o \subseteq {"limit", "paginationToken"}
                /\ \A k \in 1..Len(R) : ~HasCursor(R[k]) => Len(P) = k
                /\ HasCreate(c) =>
                      /\ Len(P) = Len(R)
                      /\ ~HasCursor(R[Len(R)])

\* a drain of three pages: the second and third requests carry the cursors of
\* the first and second responses
C14_Witness ==
    \E c \in Callers :
        /\ call[c].op = "createCollectionWebhook" /\ HasCreate(c)
        /\ Len(PageRequests(c)) = 3 /\ Len(resps[c]) = 3
        /\ Get(resps[c][1], "paginationToken") = Str("t1")
        /\ Get(resps[c][2], "paginationToken") = Str("t2")
        /\ Get(PageOptions(c, 2), "paginationToken") = Str("t1")
        /\ Get(PageOptions(c, 3), "paginationToken") = Str("t2")

MutatingOps == {"editWebhook", "appendAddressesToWebhook", "removeAddressesFromWebhook"}

\* caller c's operation has put its record and was told it succeeded
Wrote(c) ==
    /\ call[c].op \in MutatingOps
    /\ call[c].pc = "done" /\ call[c].result.status = "fulfilled"

\* the fields the operation of caller c sets
GivenFields(c) ==
    IF call[c].op = "editWebhook"
    THEN {f \in Fields : Provided(call[c].args, f)}
    ELSE {"accountAddresses"}

\* the fields in which the put of caller c differs from what it fetched
Updated(c) == {f \in Fields : Get(PutBody(c), f) # Get(call[c].webhook, f)}

(***************************************************************************)
(* C13  Lost update under concurrency: when two callers' mutating          *)
(* operations on the same webhook have both succeeded and both were built  *)
(* from the same fetched snapshot, the webhook on the server is the record *)
(* one of them, the later writer, has put: each field that operation sets  *)
(* by an edit has the value it gave, and every field it does not set has   *)
(* the snapshot's value, so whatever the other caller changed there is     *)
(* gone although that caller was told its own record was stored.           *)
(***************************************************************************)
C13_LostUpdate ==
    \A c, d \in Callers :
        (c # d /\ Wrote(c) /\ Wrote(d) /\ call[c].webhook = call[d].webhook) =>
            \E later \in {c, d} :
                /\ server = ReplaceWebhook(PutBody(later))
                /\ server = call[later].result.value
                /\ \A f \in Fields \ GivenFields(later) :
                      Get(server, f) = Get(call[later].webhook, f)
                /\ call[later].op = "editWebhook" =>
                      \A f \in GivenFields(later) :
                          Get(server, f) = Get(call[later].args, f)

\* an edit of the URL and an append that both fetched the same webhook: the
\* append is written last, the new URL is gone, and both callers hold a success
C13_Witness ==
    \E c, d \in Callers :
        /\ c # d /\ Wrote(c) /\ Wrote(d)
        /\ call[c].webhook = call[d].webhook
        /\ call[c].op = "editWebhook" /\ call[d].op = "appendAddressesToWebhook"
        /\ "webhookURL" \in Updated(c) /\ "accountAddresses" \in Updated(d)
        /\ Get(call[c].result.value, "webhookURL") = Get(call[c].args, "webhookURL")
        /\ server = call[d].result.value
        /\ Get(server, "webhookURL") = Get(call[d].webhook, "webhookURL")
        /\ Get(server, "webhookURL") # Get(call[c].args, "webhookURL")

\* createCollectionWebhook of caller c is awaiting a remote call
Draining(c) ==
    /\ call[c].op = "createCollectionWebhook"
    /\ call[c].pc \in {"getMintlist", "createWebhook"}

\* it has ended, with the created webhook or with an error
Finished(c) ==
    /\ call[c].op = "createCollectionWebhook" /\ call[c].pc = "done"
    /\ \/ /\ call[c].result.status = "fulfilled"
          /\ Get(call[c].result.value, "webhookID") = Str("w2")
       \/ /\ call[c].result.status = "rejected"
          /\ call[c].result.value.name = "Error"

\* every response its drain has received so far carried a cursor
OnlyCursors(c) ==
    /\ call[c].op = "createCollectionWebhook"
    /\ resps[c] # <<>>
    /\ \A k \in 1..Len(resps[c]) : HasCursor(resps[c][k])

\* the drain goes on: a further page request is out, unanswered or failed,
\* no create request was sent and no webhook returned
GoesOn(c) ==
    /\ Len(PageRequests(c)) = Len(resps[c]) + 1
    /\ ~HasCreate(c)
    /\ \/ call[c].pc = "getMintlist" /\ call[c].result.status = "pending"
       \/ call[c].pc = "done" /\ call[c].result.status = "rejected"

(***************************************************************************)
(* C15  Drain termination: when every remote call is eventually answered   *)
(* or fails, and the service's cursor chain ends, a createCollectionWebhook*)
(* that is awaiting a remote call eventually ends, with the created        *)
(* webhook or with an error; and whatever the number of pages received, as *)
(* long as every one of them carried a cursor the drain has asked for one  *)
(* more page and has sent no create request, so it can end only by a       *)
(* failed page request.                                                    *)
(***************************************************************************)
C15_DrainTermination ==
    /\ \A c \in Callers : Draining(c) ~> Finished(c)
    /\ [](\A c \in Callers : OnlyCursors(c) => GoesOn(c))

\* a drain that ended with the created webhook after two pages with a cursor
\* and one without
C15_Witness ==
    \E c \in Callers :
        /\ Finished(c) /\ call[c].result.status = "fulfilled"
        /\ Len(resps[c]) = MaxPages
        /\ \A k \in 1..(MaxPages - 1) : HasCursor(resps[c][k])
        /\ ~HasCursor(resps[c][MaxPages])

=============================================================================
